---- MODULE Spec2Model ----
(***************************************************************************)
(* hostd-pin: the rate Averager (package rate) and the decision loop of    *)
(* hpind (package main).                                                   *)
(*                                                                         *)
(* decimal.Decimal values are held exactly as fixed-point numbers with 20  *)
(* fractional digits, split into limbs of four decimal digits:             *)
(* <<i, f1, f2, f3, f4, f5>> is i + f1/10^4 + ... + f5/10^20. A quotient   *)
(* has 16 fractional digits (decimal.DivisionPrecision), so its last limb  *)
(* is zero; a sample of decimal.NewFromFloat may use the last limb.        *)
(* Durations are counted in hours.                                         *)
(***************************************************************************)
EXTENDS Integers, Naturals, Sequences, FiniteSets, TLC

\* ---------------------------------------------------------------- bounds
\* number of Update calls in one run (the initial one included)
MaxUpdates == 3
\* number of decision ticks delivered to the main loop in one run
MaxTicks == 2

\* ------------------------------------------------------ program constants
\* 48 * time.Hour, in hours
WindowHours == 48
\* limb base; the limbs of a quotient: one integer limb and 16 / 4
\* fractional limbs (16 = decimal.DivisionPrecision); the limbs of a
\* decimal: one more, for the digits 17 to 20 of a sample
Base == 10 * 10 * 10 * 10
DivLimbs == 1 + (16 \div 4)
Limbs == DivLimbs + 1

\* ------------------------------------------------------------ decimals
D(n) == <<n, 0, 0, 0, 0, 0>>

DecZero == D(0)

\* a decimal written out limb by limb
Dec(v) == <<v[1], v[2], v[3], v[4], v[5], v[6]>>

RECURSIVE Carry(_, _, _)
Carry(v, i, c) ==
    IF i = 1 THEN [v EXCEPT ![1] = v[1] + c]
    ELSE LET t == v[i] + c
         IN  Carry([v EXCEPT ![i] = t % Base], i - 1, t \div Base)

\* Decimal.Add
DecAdd(a, b) == Dec(Carry([i \in 1..Limbs |-> a[i] + b[i]], Limbs, 0))

\* Decimal.Mul by an integer coefficient (exact)
DecMulInt(a, m) == Dec(Carry([i \in 1..Limbs |-> a[i] * m], Limbs, 0))

RECURSIVE DecCmpFrom(_, _, _)
DecCmpFrom(a, b, i) ==
    IF i > Limbs THEN 0
    ELSE IF a[i] < b[i] THEN -1
    ELSE IF a[i] > b[i] THEN 1
    ELSE DecCmpFrom(a, b, i + 1)

\* Decimal.Cmp
DecCmp(a, b) == DecCmpFrom(a, b, 1)

\* Decimal.GreaterThan
DecGreater(a, b) == DecCmp(a, b) = 1

RECURSIVE Borrow(_, _, _)
Borrow(v, i, c) ==
    IF i = 1 THEN [v EXCEPT ![1] = v[1] - c]
    ELSE LET t == v[i] - c
         IN  IF t < 0 THEN Borrow([v EXCEPT ![i] = t + Base], i - 1, 1)
                      ELSE Borrow([v EXCEPT ![i] = t], i - 1, 0)

\* Decimal.Sub followed by Decimal.Abs
DecAbsDiff(a, b) ==
    IF DecCmp(a, b) >= 0
    THEN Dec(Borrow([i \in 1..Limbs |-> a[i] - b[i]], Limbs, 0))
    ELSE Dec(Borrow([i \in 1..Limbs |-> b[i] - a[i]], Limbs, 0))

\* long division by an integer: <<quotient limbs, remainder>>
RECURSIVE LongDiv(_, _, _, _)
LongDiv(v, i, r, n) ==
    IF i > Limbs THEN <<v, r>>
    ELSE LET t == r * Base + v[i]
         IN  LongDiv([v EXCEPT ![i] = t \div n], i + 1, t % n, n)

\* Decimal.Div by an integer: the quotient to 16 fractional digits, rounded
\* half away from zero (DivRound)
DecDivInt(a, n) ==
    LET qr == LongDiv(a, 1, 0, n)
        q == [qr[1] EXCEPT ![Limbs] = 0]
    IN  IF 2 * (qr[1][Limbs] * n + qr[2]) >= n * Base
        THEN Dec(Carry(q, DivLimbs, 1))
        ELSE Dec(q)

RECURSIVE SumRates(_)
SumRates(s) == IF s = <<>> THEN DecZero ELSE DecAdd(s[1], SumRates(Tail(s)))

RECURSIVE Pow10(_)
Pow10(k) == IF k = 0 THEN 1 ELSE 10 * Pow10(k - 1)

\* ------------------------------------------------------- configuration
\* Config.Frequency in hours: capacities 3 (48/14 rounded down), 2, 1 and 0
Frequencies == {14, 20, 30, 72}

\* Config.Threshold as num * 10^-exp: the default, decimal.NewFromFloat(0.1)
Thresholds == {[num |-> 1, exp |-> 1]}

\* len(Config.Hosts)
HostCounts == {1, 2}

\* the rates the quote service has for a currency. For "usd":
Samples == {D(0), D(100), D(111)}

\* for "eur": rates a tenth, less than a tenth and more than a tenth away
\* from 100
ThresholdSamples == {D(90), D(100), D(109), D(110), D(111)}

\* for "gbp": 0.30000000000000004, a float64 that decimal.NewFromFloat
\* gives 17 fractional digits, with 100 and 111
PrecisionSamples == {<<0, 3000, 0, 0, 0, 4000>>, D(100), D(111)}

\* Config.Currency
Currencies == {"usd", "eur", "gbp"}

SamplesOf(c) ==
    CASE c = "usd" -> Samples
      [] c = "eur" -> ThresholdSamples
      [] c = "gbp" -> PrecisionSamples

\* what sc.GetExchangeRate() and the lookup of the currency can produce: a
\* transport error, a result without the currency, or a rate
QuotesWith(rs) ==
    {[kind |-> "err", rate |-> DecZero], [kind |-> "absent", rate |-> DecZero]}
    \cup {[kind |-> "rate", rate |-> r] : r \in rs}

UsdQuotes == QuotesWith(Samples)
EurQuotes == QuotesWith(ThresholdSamples)
GbpQuotes == QuotesWith(PrecisionSamples)

Quotes(c) ==
    CASE c = "usd" -> UsdQuotes
      [] c = "eur" -> EurQuotes
      [] c = "gbp" -> GbpQuotes

VARIABLES
    currency,   \* Averager.currency
    frequency,  \* Averager.frequency
    threshold,  \* Config.Threshold
    nhosts,     \* len(Config.Hosts)
    rates,      \* Averager.rates
    average,    \* Averager.average
    mu,         \* Averager.mu: "free", or "update" while Update holds it
    upc,        \* position inside Update: "none" when no call is active
    ucaller,    \* who called Update: "main" or "run"
    urate,      \* Update's local rate
    uquote,     \* what the quote service gave the last Update: "none",
                \* "err", "absent" or "rate"
    uresult,    \* what the last Update returned: "none", "ok" or "err"
    uret,       \* the decimal the last Update returned
    mpc,        \* position of main
    lastRate,   \* main's lastRate
    snapshot,   \* main's local average, the value Rate() returned
    acted,      \* outcome of the last threshold test: "none", "skip", "fire"
    hidx,       \* updateHosts: index of the host in the loop, 0 outside it
    hflight,    \* updateHosts: an UpdateSettings call is in flight
    hcalls,     \* UpdateSettings calls issued to each host in the last round
    hresult,    \* how the last updateHosts ended: "none", "ok", "err"
    rpc,        \* position of the Run goroutine
    mtick,      \* a tick is pending on main's ticker channel
    rtick,      \* a tick is pending on Run's ticker channel
    cancelled,  \* ctx.Done() is closed
    crashed,    \* the process died of a panic
    nupdates,   \* number of Update calls started
    nticks,     \* number of ticks delivered on main's ticker
    fetched,    \* history: every sample a successful fetch returned, in order
    preRates,   \* history: rates when the active Update was called
    preAverage, \* history: average when the active Update was called
    anchor,     \* history: the rate the initial Update returned, then the
                \* snapshot of the most recent tick that fired
    sinceRead   \* history: an Update of Run has succeeded since main last
                \* read the average (or since the initial Update returned)

vars == <<currency, frequency, threshold, nhosts, rates, average, mu, upc,
          ucaller, urate, uquote, uresult, mpc, lastRate, snapshot, acted, hidx,
          hflight, hcalls, hresult, rpc,
          mtick, rtick, cancelled, crashed, nupdates, nticks, fetched,
          preRates, preAverage, uret, anchor, sinceRead>>

config == <<currency, frequency, threshold, nhosts>>
avgVars == <<rates, average>>
updVars == <<upc, ucaller, urate, uquote, uresult, uret, nupdates,
             preRates, preAverage>>
hostVars == <<hidx, hflight, hcalls, hresult>>
envVars == <<mtick, rtick, cancelled>>
histVars == <<anchor, sinceRead>>

\* the process is running: no panic, and main has not returned
Alive == ~crashed /\ mpc # "done"

\* rate.New followed by the start of main up to the first r.Update()
InitWith(c, freqs, fractions, counts) ==
    /\ currency = c
    /\ frequency \in freqs
    /\ threshold \in fractions
    /\ nhosts \in counts
    /\ rates = <<>>
    /\ average = DecZero
    /\ mu = "free"
    /\ upc = "none"
    /\ ucaller = "main"
    /\ urate = DecZero
    /\ uquote = "none"
    /\ uresult = "none"
    /\ mpc = "start"
    /\ lastRate = DecZero
    /\ snapshot = DecZero
    /\ acted = "none"
    /\ hidx = 0
    /\ hflight = FALSE
    /\ hcalls = [h \in 1..nhosts |-> 0]
    /\ hresult = "none"
    /\ rpc = "idle"
    /\ mtick = FALSE
    /\ rtick = FALSE
    /\ cancelled = FALSE
    /\ crashed = FALSE
    /\ nupdates = 0
    /\ nticks = 0
    /\ fetched = <<>>
    /\ preRates = <<>>
    /\ preAverage = DecZero
    /\ uret = DecZero
    /\ anchor = DecZero
    /\ sinceRead = FALSE

Init == InitWith("usd", Frequencies, Thresholds, HostCounts)

\* ------------------------------------------------------------ Averager
\* maxRates := int(48 * time.Hour / ra.frequency)
maxRates(f) == WindowHours \div f

\* getExchangeRate without the test of ok: a missing currency reads as the
\* zero value of the map
getExchangeRateNoOk(q) ==
    IF q.kind = "err" THEN [rate |-> DecZero, err |-> TRUE]
                      ELSE [rate |-> q.rate, err |-> FALSE]

\* getExchangeRate: the rate of the currency, or an error when the client
\* fails or its result has no entry for the currency
getExchangeRate(q) ==
    IF q.kind = "rate" THEN [rate |-> q.rate, err |-> FALSE]
                       ELSE [rate |-> DecZero, err |-> TRUE]

\* entry into Update: the call itself
CallUpdate(who) ==
    /\ upc' = "fetch"
    /\ ucaller' = who
    /\ nupdates' = nupdates + 1
    /\ preRates' = rates
    /\ preAverage' = average
    /\ uquote' = "none"
    /\ uresult' = "none"
    /\ uret' = DecZero
    /\ UNCHANGED urate

\* Update returns the decimal val and the result res to its caller
UpdateReturns(res, val) ==
    /\ upc' = "none"
    /\ uresult' = res
    /\ uret' = val

\* UpdateFetchFail with Run returning on the error instead of continuing
UpdateFetchFailStops(q) ==
    /\ Alive
    /\ upc = "fetch"
    /\ getExchangeRate(q).err
    /\ uquote' = q.kind
    /\ UpdateReturns("err", DecZero)
    /\ IF ucaller = "main"
       THEN crashed' = TRUE /\ UNCHANGED rpc
       ELSE rpc' = "done" /\ UNCHANGED crashed
    /\ UNCHANGED <<config, histVars, avgVars, mu, ucaller, urate, nupdates,
                   preRates, preAverage, mpc, lastRate, snapshot, acted,
                   hostVars, envVars, nticks, fetched>>

\* getExchangeRate fails: Update returns the error. main panics on it
\* (log.Panic), Run logs it and goes back to its select.
UpdateFetchFail(q) ==
    /\ Alive
    /\ upc = "fetch"
    /\ getExchangeRate(q).err
    /\ uquote' = q.kind
    /\ UpdateReturns("err", DecZero)
    /\ IF ucaller = "main"
       THEN crashed' = TRUE /\ UNCHANGED rpc
       ELSE rpc' = "select" /\ UNCHANGED crashed
    /\ UNCHANGED <<config, histVars, avgVars, mu, ucaller, urate, nupdates,
                   preRates, preAverage, mpc, lastRate, snapshot, acted,
                   hostVars, envVars, nticks, fetched>>

\* getExchangeRate succeeds
UpdateFetchOk(q) ==
    /\ Alive
    /\ upc = "fetch"
    /\ ~getExchangeRate(q).err
    /\ urate' = getExchangeRate(q).rate
    /\ fetched' = Append(fetched, getExchangeRate(q).rate)
    /\ upc' = "lock"
    /\ uquote' = q.kind
    /\ UNCHANGED <<config, histVars, avgVars, mu, ucaller, uresult, uret,
                   nupdates, preRates, preAverage, mpc, lastRate, snapshot,
                   acted, hostVars, rpc, envVars, crashed, nticks>>

\* ra.mu.Lock() can return
UpdateMayLock == mu = "free"

UpdateLock ==
    /\ Alive
    /\ upc = "lock"
    /\ UpdateMayLock
    /\ mu' = "update"
    /\ upc' = "append"
    /\ UNCHANGED <<config, histVars, avgVars, ucaller, urate, uquote, uresult,
                   uret, nupdates, preRates, preAverage, mpc, lastRate,
                   snapshot, acted, hostVars, rpc, envVars, crashed, nticks,
                   fetched>>

\* ra.rates = append(ra.rates, rate)
UpdateAppend ==
    /\ Alive
    /\ upc = "append"
    /\ rates' = Append(rates, urate)
    /\ upc' = "evict"
    /\ UNCHANGED <<config, histVars, average, mu, ucaller, urate, uquote,
                   uresult, uret, nupdates, preRates, preAverage, mpc,
                   lastRate, snapshot, acted, hostVars, rpc, envVars, crashed,
                   nticks, fetched>>

\* Evict with the comparison off by one: the buffer grows one past the cap
EvictOffByOne(rs, f) == IF Len(rs) > maxRates(f) + 1 THEN Tail(rs) ELSE rs

\* Evict dropping the newest sample instead of the oldest
EvictNewest(rs, f) ==
    IF Len(rs) > maxRates(f) THEN SubSeq(rs, 1, Len(rs) - 1) ELSE rs

\* if len(ra.rates) > maxRates { ra.rates = ra.rates[1:] }
Evict(rs, f) == IF Len(rs) > maxRates(f) THEN Tail(rs) ELSE rs

UpdateEvict ==
    /\ Alive
    /\ upc = "evict"
    /\ rates' = Evict(rates, frequency)
    /\ upc' = "average"
    /\ UNCHANGED <<config, histVars, average, mu, ucaller, urate, uquote,
                   uresult, uret, nupdates, preRates, preAverage, mpc,
                   lastRate, snapshot, acted, hostVars, rpc, envVars, crashed,
                   nticks, fetched>>

\* Mean with the quotient cut off after 16 digits instead of rounded
MeanTruncated(rs) ==
    Dec([LongDiv(SumRates(rs), 1, 0, Len(rs))[1] EXCEPT ![Limbs] = 0])

\* sum of ra.rates divided by len(ra.rates)
Mean(rs) == DecDivInt(SumRates(rs), Len(rs))

\* the recomputation of ra.average; Decimal.Div panics on a zero divisor,
\* with the mutex held
UpdateAverage ==
    /\ Alive
    /\ upc = "average"
    /\ IF Len(rates) = 0
       THEN crashed' = TRUE /\ UNCHANGED <<average, upc>>
       ELSE average' = Mean(rates) /\ upc' = "unlock" /\ UNCHANGED crashed
    /\ UNCHANGED <<config, histVars, rates, mu, ucaller, urate, uquote,
                   uresult, uret, nupdates, preRates, preAverage, mpc,
                   lastRate, snapshot, acted, hostVars, rpc, envVars, nticks,
                   fetched>>

\* Update returning the recomputed mean
UpdateResultMean(rate, avg) == avg

\* return rate, nil
UpdateResult(rate, avg) == rate

\* ra.mu.Unlock(); return rate, nil.  main stores the result in lastRate and
\* enters updateHosts; Run goes back to its select.
UpdateUnlock ==
    /\ Alive
    /\ upc = "unlock"
    /\ mu' = "free"
    /\ UpdateReturns("ok", UpdateResult(urate, average))
    /\ sinceRead' = (ucaller = "run")
    /\ IF ucaller = "main"
       THEN /\ lastRate' = UpdateResult(urate, average)
            /\ anchor' = UpdateResult(urate, average)
            /\ mpc' = "convert"
            /\ hcalls' = [h \in 1..nhosts |-> 0]
            /\ UNCHANGED rpc
       ELSE /\ rpc' = "select"
            /\ UNCHANGED <<lastRate, anchor, mpc, hcalls>>
    /\ UNCHANGED <<config, avgVars, ucaller, urate, uquote, nupdates,
                   preRates, preAverage, snapshot, acted, hidx, hflight,
                   hresult, envVars, crashed, nticks, fetched>>

\* Rate() reading ra.average without taking the mutex
RateNoLock == TRUE

\* Rate() waiting for a whole Update, its fetch included
RateWaitsForUpdate == mu = "free" /\ upc = "none"

\* Rate(): ra.mu.Lock() can return
RateMayLock == mu = "free"

\* ------------------------------------------------------------- updateHosts
\* isOverThreshold with GreaterThanOrEqual in place of GreaterThan
isOverThresholdInclusive(a, b, percentage) ==
    LET thresh == DecMulInt(a, percentage.num)
        diff == DecMulInt(DecAbsDiff(a, b), Pow10(percentage.exp))
    IN  DecCmp(diff, thresh) >= 0

\* isOverThreshold with the limit taken from the new value b
isOverThresholdOfNew(a, b, percentage) ==
    LET thresh == DecMulInt(b, percentage.num)
        diff == DecMulInt(DecAbsDiff(a, b), Pow10(percentage.exp))
    IN  DecGreater(diff, thresh)

\* a.Mul(percentage) and a.Sub(b).Abs(), both in units of 10^-exp so that the
\* product is held exactly; diff.GreaterThan(threshold)
isOverThreshold(a, b, percentage) ==
    LET thresh == DecMulInt(a, percentage.num)
        diff == DecMulInt(DecAbsDiff(a, b), Pow10(percentage.exp))
    IN  DecGreater(diff, thresh)

\* natural numbers of any size, most significant base-10^4 limb first
\* a * m + c for small m and c, from limb i down
RECURSIVE BigMulAdd(_, _, _, _)
BigMulAdd(a, i, m, c) ==
    IF i = 0
    THEN IF c = 0 THEN <<>>
         ELSE Append(BigMulAdd(a, 0, m, c \div Base), c % Base)
    ELSE Append(BigMulAdd(a, i - 1, m, (a[i] * m + c) \div Base),
                (a[i] * m + c) % Base)

BigMulSmall(a, m) == BigMulAdd(a, Len(a), m, 0)

RECURSIVE BigPad(_, _)
BigPad(a, n) == IF Len(a) >= n THEN a ELSE BigPad(<<0>> \o a, n)

RECURSIVE BigShift(_, _)
BigShift(a, k) == IF k = 0 THEN a ELSE BigShift(Append(a, 0), k - 1)

BigWidth(a, b) == IF Len(a) >= Len(b) THEN Len(a) ELSE Len(b)

RECURSIVE BigCmpFrom(_, _, _)
BigCmpFrom(a, b, i) ==
    IF i > Len(a) THEN 0
    ELSE IF a[i] < b[i] THEN -1
    ELSE IF a[i] > b[i] THEN 1
    ELSE BigCmpFrom(a, b, i + 1)

BigCmp(a, b) ==
    BigCmpFrom(BigPad(a, BigWidth(a, b)), BigPad(b, BigWidth(a, b)), 1)

\* x - y - c for x >= y of one width, from limb i down
RECURSIVE BigSubFrom(_, _, _, _)
BigSubFrom(x, y, i, c) ==
    IF i = 0 THEN <<>>
    ELSE IF x[i] - y[i] - c < 0
         THEN Append(BigSubFrom(x, y, i - 1, 1), x[i] - y[i] - c + Base)
         ELSE Append(BigSubFrom(x, y, i - 1, 0), x[i] - y[i] - c)

\* a - b for a >= b
BigSub(a, b) ==
    BigSubFrom(BigPad(a, BigWidth(a, b)), BigPad(b, BigWidth(a, b)),
               BigWidth(a, b), 0)

RECURSIVE Pow2(_)
Pow2(k) == IF k = 0 THEN 1 ELSE 2 * Pow2(k - 1)

\* 2^k, sixteen bits at a time
RECURSIVE BigPow2(_)
BigPow2(k) ==
    IF k <= 16 THEN BigMulSmall(<<1>>, Pow2(k))
    ELSE BigMulSmall(BigPow2(k - 16), Pow2(16))

\* the largest limb d in lo..hi with d * b <= r
RECURSIVE QuoDigit(_, _, _, _)
QuoDigit(r, b, lo, hi) ==
    IF lo = hi THEN lo
    ELSE IF BigCmp(BigMulSmall(b, (lo + hi + 1) \div 2), r) <= 0
         THEN QuoDigit(r, b, (lo + hi + 1) \div 2, hi)
         ELSE QuoDigit(r, b, lo, ((lo + hi + 1) \div 2) - 1)

\* long division of n by b from limb i on: <<quotient, remainder>>
RECURSIVE BigQuoRem(_, _, _, _, _)
BigQuoRem(n, b, i, q, r) ==
    IF i > Len(n) THEN <<q, r>>
    ELSE LET r1 == Append(r, n[i])
             d == IF BigCmp(r1, b) < 0 THEN 0
                  ELSE QuoDigit(r1, b, 1, Base - 1)
         IN  BigQuoRem(n, b, i + 1, Append(q, d),
                       IF d = 0 THEN r1 ELSE BigSub(r1, BigMulSmall(b, d)))

\* the limbs of a decimal as a natural number of units of 10^-20: the
\* integer limb, which may pass 10^4, is split into three limbs
DecLimbs(a) ==
    [i \in 1..(Limbs + 2) |->
        IF i = 1 THEN a[1] \div (Base * Base)
        ELSE IF i = 2 THEN (a[1] \div Base) % Base
        ELSE IF i = 3 THEN a[1] % Base
        ELSE a[i - 2]]

\* Decimal.Div for b # 0: a / b to 16 fractional digits, rounded half away
\* from zero (DivRound), as a natural number of units of 10^-16
DecDiv(a, b) ==
    LET qr == BigQuoRem(BigShift(DecLimbs(a), DivLimbs - 1), DecLimbs(b), 1,
                        <<>>, <<>>)
    IN  IF BigCmp(BigMulSmall(qr[2], 2), DecLimbs(b)) >= 0
        THEN BigMulAdd(qr[1], Len(qr[1]), 1, 1)
        ELSE qr[1]

\* Config.Prices as main sets them: storage 1.00, ingress 0.10, egress 10
TargetPrices == <<D(1), <<0, 1000, 0, 0, 0, 0>>, D(10)>>

\* target.Div(rate).Mul(decimal.New(1, 24)).Round(0).String(): the quotient
\* in units of 10^-16 times 10^24 is a whole number ending in eight zeros,
\* which Round(0) leaves alone; its digits in groups of four
Hastings(target, rate) == BigShift(DecDiv(target, rate), (24 - 16) \div 4)

\* a types.Currency holds 128 bits
CurrencyBits == 128

\* the first number that does not fit a types.Currency
CurrencyLimit == BigPow2(CurrencyBits)

\* types.ParseCurrency returns an error for a number that does not fit
ParseCurrencyFails(h) == BigCmp(h, CurrencyLimit) >= 0

\* convertToCurrency panics when target.Div(rate) divides by zero and when
\* types.ParseCurrency returns an error
convertToCurrencyPanics(target, rate) ==
    \/ rate = DecZero
    \/ ParseCurrencyFails(Hastings(target, rate))

\* one of the three conversions at the head of updateHosts panics
updateHostsPanics(rate) ==
    \E p \in 1..Len(TargetPrices) :
        convertToCurrencyPanics(TargetPrices[p], rate)

\* the averages of the windows of samples the buffer can hold
WindowRates ==
    {Mean(w) : w \in UNION {[1..n -> SamplesOf(c)] :
                c \in Currencies,
                n \in 1..maxRates(CHOOSE f \in Frequencies :
                                     \A g \in Frequencies : f <= g)}}

\* updateHostsPanics worked out once for each of these rates
PanickingRates ==
    UNION {IF updateHostsPanics(r) THEN {r} ELSE {} : r \in WindowRates}

ConvertPanics(rate) ==
    IF rate \in WindowRates THEN rate \in PanickingRates
                            ELSE updateHostsPanics(rate)

\* updateHosts returns to main: after the initial call main starts Run and
\* its own ticker, after a round it goes back to its select
HostsReturn(res) ==
    /\ hresult' = res
    /\ hidx' = 0
    /\ hflight' = FALSE
    /\ mpc' = "select"
    /\ rpc' = IF rpc = "idle" THEN "select" ELSE rpc

\* the three convertToCurrency calls at the head of updateHosts
HostsConvert ==
    /\ Alive
    /\ mpc = "convert"
    /\ IF ConvertPanics(lastRate)
       THEN crashed' = TRUE /\ UNCHANGED <<mpc, rpc, hostVars>>
       ELSE IF nhosts = 0
            THEN HostsReturn("ok") /\ UNCHANGED <<crashed, hcalls>>
            ELSE /\ mpc' = "hosts"
                 /\ hidx' = 1
                 /\ UNCHANGED <<crashed, rpc, hflight, hcalls, hresult>>
    /\ UNCHANGED <<config, histVars, avgVars, mu, updVars, lastRate, snapshot,
                   acted, envVars, nticks, fetched>>

\* updateHosts sending the call to every remaining host at once
HostCallStartAll ==
    /\ Alive
    /\ mpc = "hosts"
    /\ ~hflight
    /\ hflight' = TRUE
    /\ hcalls' = [h \in 1..nhosts |-> IF h >= hidx THEN hcalls[h] + 1
                                                  ELSE hcalls[h]]
    /\ UNCHANGED <<config, histVars, avgVars, mu, updVars, mpc, lastRate,
                   snapshot, acted, hidx, hresult, rpc, envVars, crashed,
                   nticks, fetched>>

\* client.UpdateSettings(...) is sent to the host at hidx
HostCallStart ==
    /\ Alive
    /\ mpc = "hosts"
    /\ ~hflight
    /\ hflight' = TRUE
    /\ hcalls' = [hcalls EXCEPT ![hidx] = @ + 1]
    /\ UNCHANGED <<config, histVars, avgVars, mu, updVars, mpc, lastRate,
                   snapshot, acted, hidx, hresult, rpc, envVars, crashed,
                   nticks, fetched>>

\* UpdateSettings returned nil: the loop goes on, or updateHosts returns nil
\* after the last host
HostCallOk ==
    /\ Alive
    /\ mpc = "hosts"
    /\ hflight
    /\ IF hidx = nhosts
       THEN HostsReturn("ok")
       ELSE /\ hidx' = hidx + 1
            /\ hflight' = FALSE
            /\ UNCHANGED <<hresult, mpc, rpc>>
    /\ UNCHANGED <<config, histVars, avgVars, mu, updVars, lastRate, snapshot,
                   acted, hcalls, envVars, crashed, nticks, fetched>>

\* what updateHosts does when UpdateSettings returned an error:
\* return fmt.Errorf("failed to update host ...")
HostFailure == HostsReturn("err")

HostCallErr ==
    /\ Alive
    /\ mpc = "hosts"
    /\ hflight
    /\ HostFailure
    /\ UNCHANGED <<config, histVars, avgVars, mu, updVars, lastRate, snapshot,
                   acted, hcalls, envVars, crashed, nticks, fetched>>

\* ------------------------------------------------------------------- main
\* a loop that does not wait for its ticker
TickCaseAlways(pending) == TRUE

\* a receive case of a select on a ticker channel can be chosen when a tick
\* is pending on the channel
TickCase(pending) == pending

\* lastRate, err := r.Update()
MainStart ==
    /\ Alive
    /\ mpc = "start"
    /\ CallUpdate("main")
    /\ mpc' = "init_update"
    /\ UNCHANGED <<config, histVars, avgVars, mu, lastRate, snapshot, acted,
                   hostVars, rpc, envVars, crashed, nticks, fetched>>

\* case <-t.C:
MainSelectTick ==
    /\ Alive
    /\ mpc = "select"
    /\ TickCase(mtick)
    /\ mtick' = FALSE
    /\ mpc' = "rate"
    /\ acted' = "none"
    /\ UNCHANGED <<config, histVars, avgVars, mu, updVars, lastRate, snapshot,
                   hostVars, rpc, rtick, cancelled, crashed, nticks, fetched>>

\* case <-ctx.Done(): return
MainSelectDone ==
    /\ Alive
    /\ mpc = "select"
    /\ cancelled
    /\ mpc' = "done"
    /\ UNCHANGED <<config, histVars, avgVars, mu, updVars, lastRate, snapshot,
                   acted, hostVars, rpc, envVars, crashed, nticks, fetched>>

\* main refreshing the rate itself on a tick: r.Update() in place of r.Rate()
MainRateRefreshes ==
    /\ Alive
    /\ mpc = "rate"
    /\ upc = "none"
    /\ CallUpdate("main")
    /\ mpc' = "init_update"
    /\ UNCHANGED <<config, histVars, avgVars, mu, lastRate, snapshot, acted,
                   hostVars, rpc, envVars, crashed, nticks, fetched>>

\* average := r.Rate(): lock, read ra.average, unlock
MainRate ==
    /\ Alive
    /\ mpc = "rate"
    /\ RateMayLock
    /\ snapshot' = average
    /\ mpc' = "check"
    /\ sinceRead' = FALSE
    /\ UNCHANGED <<config, anchor, avgVars, mu, updVars, lastRate, acted,
                   hostVars, rpc, envVars, crashed, nticks, fetched>>

\* the baseline left where it was
NewBaselineKept(last, avg) == last

\* lastRate = average
NewBaseline(last, avg) == avg

\* the baseline following every snapshot, also one that was skipped
SkipBaselineFollows(last, avg) == avg

\* lastRate on the skip branch: not assigned
SkipBaseline(last, avg) == last

\* the skip branch without its continue: main falls through to updateHosts
AfterSkipFallsThrough == "convert"

\* where main goes after "skipping update": continue, back to the select
AfterSkip == "select"

\* the threshold test, and lastRate = average before updateHosts is called
MainCheck ==
    /\ Alive
    /\ mpc = "check"
    /\ IF ~isOverThreshold(lastRate, snapshot, threshold)
       THEN /\ acted' = "skip"
            /\ mpc' = AfterSkip
            /\ lastRate' = SkipBaseline(lastRate, snapshot)
            /\ UNCHANGED anchor
            /\ hcalls' = IF AfterSkip = "select"
                          THEN hcalls ELSE [h \in 1..nhosts |-> 0]
       ELSE /\ acted' = "fire"
            /\ lastRate' = NewBaseline(lastRate, snapshot)
            /\ anchor' = snapshot
            /\ mpc' = "convert"
            /\ hcalls' = [h \in 1..nhosts |-> 0]
    /\ UNCHANGED <<config, sinceRead, avgVars, mu, updVars, snapshot, hidx,
                   hflight, hresult, rpc, envVars, crashed, nticks, fetched>>

\* -------------------------------------------------------------------- Run
\* case <-ticker.C: ra.Update()
RunSelectTick ==
    /\ Alive
    /\ rpc = "select"
    /\ TickCase(rtick)
    /\ rtick' = FALSE
    /\ CallUpdate("run")
    /\ rpc' = "update"
    /\ UNCHANGED <<config, histVars, avgVars, mu, mpc, lastRate, snapshot,
                   acted, hostVars, mtick, cancelled, crashed, nticks,
                   fetched>>

\* case <-ctx.Done(): ticker.Stop(); return
RunSelectDone ==
    /\ Alive
    /\ rpc = "select"
    /\ cancelled
    /\ rpc' = "done"
    /\ UNCHANGED <<config, histVars, avgVars, mu, updVars, mpc, lastRate,
                   snapshot, acted, hostVars, envVars, crashed, nticks,
                   fetched>>

\* ------------------------------------------------------------ environment
\* main's ticker delivers a tick (the channel holds at most one)
TickMain ==
    /\ Alive
    /\ rpc # "idle"
    /\ ~mtick
    /\ nticks < MaxTicks
    /\ mtick' = TRUE
    /\ nticks' = nticks + 1
    /\ UNCHANGED <<config, histVars, avgVars, mu, updVars, mpc, lastRate,
                   snapshot, acted, hostVars, rpc, rtick, cancelled, crashed,
                   fetched>>

\* Run's ticker delivers a tick, until ticker.Stop()
TickRun ==
    /\ Alive
    /\ rpc \in {"select", "update"}
    /\ ~rtick
    /\ nupdates < MaxUpdates
    /\ rtick' = TRUE
    /\ UNCHANGED <<config, histVars, avgVars, mu, updVars, mpc, lastRate,
                   snapshot, acted, hostVars, rpc, mtick, cancelled, crashed,
                   nticks, fetched>>

\* an interrupt or SIGTERM arrives: signal.NotifyContext cancels ctx
Cancel ==
    /\ Alive
    /\ ~cancelled
    /\ cancelled' = TRUE
    /\ UNCHANGED <<config, histVars, avgVars, mu, updVars, mpc, lastRate,
                   snapshot, acted, hostVars, rpc, mtick, rtick, crashed,
                   nticks, fetched>>

Next ==
    \/ \E q \in Quotes(currency) : UpdateFetchFail(q)
    \/ \E q \in Quotes(currency) : UpdateFetchOk(q)
    \/ UpdateLock
    \/ UpdateAppend
    \/ UpdateEvict
    \/ UpdateAverage
    \/ UpdateUnlock
    \/ HostsConvert
    \/ HostCallStart
    \/ HostCallOk
    \/ HostCallErr
    \/ MainStart
    \/ MainSelectTick
    \/ MainSelectDone
    \/ MainRate
    \/ MainCheck
    \/ RunSelectTick
    \/ RunSelectDone
    \/ TickMain
    \/ TickRun
    \/ Cancel

Spec == Init /\ [][Next]_vars

\* ================================================================ claims
\* the last n elements of s, all of s when it is shorter
LastN(s, n) == IF Len(s) <= n THEN s ELSE SubSeq(s, Len(s) - n + 1, Len(s))

\* avg is the sum of rs divided by their count, to the 16 fractional digits
\* of the decimal division: |count * avg - sum| is at most half a unit of
\* the last digit
IsMeanOf(avg, rs) ==
    LET d == DecAbsDiff(DecMulInt(avg, Len(rs)), SumRates(rs))
    IN  /\ avg[Limbs] = 0
        /\ \A i \in 1..(DivLimbs - 1) : d[i] = 0
        /\ 2 * (d[DivLimbs] * Base + d[Limbs]) <= Len(rs) * Base

\* C1: outside Update's critical section the rates buffer never holds more
\* than floor(48h / frequency) samples, whatever Updates succeeded or failed.
C1_BufferBounded ==
    mu # "update" => Len(rates) * frequency <= WindowHours

\* C1 witness: an Update evicted a sample and left a full buffer, and an
\* Update has failed since
C1_Witness ==
    /\ mu = "free"
    /\ upc = "none"
    /\ uresult = "err"
    /\ rates # <<>>
    /\ (Len(rates) + 1) * frequency > WindowHours
    /\ Len(fetched) > Len(rates)

\* C2: whenever no successful Update is in progress the buffer holds the
\* floor(48h / frequency) most recently fetched samples in arrival order,
\* and all samples fetched so far while there are fewer.
C2_MostRecentInOrder ==
    (upc \in {"none", "fetch"} /\ ~crashed)
        => rates = LastN(fetched, WindowHours \div frequency)

\* C2 witness: a buffer of two samples after three successful Updates, the
\* two kept samples differing
C2_Witness ==
    /\ upc = "none"
    /\ Len(fetched) = 3
    /\ Len(rates) = 2
    /\ rates[1] # rates[2]
    /\ fetched[1] # rates[1]

\* C3: whenever Update does not hold the mutex and the buffer is not empty,
\* the cached average is the mean of the samples in the buffer.
C3_AverageIsMean ==
    (mu # "update" /\ rates # <<>>) => IsMeanOf(average, rates)

\* C3 witness: three buffered samples whose mean does not terminate within
\* 16 digits
C3_Witness ==
    /\ mu = "free"
    /\ upc = "none"
    /\ Len(rates) = 3
    /\ DecMulInt(average, 3) # SumRates(rates)

\* C4: once the quote service has answered an Update with an error or
\* without the currency, that Update has returned an error and the buffer
\* and the average are what they were when it was called.
C4_FailedUpdateChangesNothing ==
    uquote \in {"err", "absent"}
        => /\ upc = "none"
           /\ uresult = "err"
           /\ rates = preRates
           /\ average = preAverage

\* C4 witness: an Update in Run failed for a missing currency on a buffer
\* that holds samples
C4_Witness ==
    /\ uquote = "absent"
    /\ ucaller = "run"
    /\ uresult = "err"
    /\ rates # <<>>
    /\ rpc = "select"

\* C6: after a tick whose threshold test was true, lastRate is the snapshot
\* read at that tick, during the round and after it, however the round ends.
C6_BaselineIsSnapshot ==
    acted = "fire" => lastRate = snapshot

\* C6 witness: a fired round over a single host whose update call failed
C6_Witness ==
    /\ acted = "fire"
    /\ mpc = "select"
    /\ nhosts = 1
    /\ hcalls[1] = 1
    /\ hresult = "err"
    /\ lastRate = snapshot

\* C7 (as claimed): when updateHosts has returned, every host has received
\* exactly one update call, also when a call failed.
C7_EveryHostCalledOnce ==
    (mpc = "select" /\ hresult # "none")
        => \A h \in 1..nhosts : hcalls[h] = 1

\* ---------------------------------- the program on rates around a tenth
\* threshold fractions 0.1 and 0.05
ThresholdFractions == {[num |-> 1, exp |-> 1], [num |-> 5, exp |-> 2]}

\* one host, one sample in the buffer (30h), the quotes of "eur"
InitThreshold == InitWith("eur", {30}, ThresholdFractions, {1})

SpecThreshold == InitThreshold /\ [][Next]_vars

\* ------------------------- the program on a rate with 17 fractional digits
\* threshold fractions 0 and 0.1
PrecisionFractions == {[num |-> 0, exp |-> 0], [num |-> 1, exp |-> 1]}

InitPrecision == InitWith("gbp", {30}, PrecisionFractions, {1})

SpecPrecision == InitPrecision /\ [][Next]_vars

\* |a - b| > a * num / 10^exp without a subtraction: for a >= b it is
\* a * (10^exp - num) > b * 10^exp, for a < b it is b * 10^exp >
\* a * (10^exp + num); fractions of at most 1
Exceeds(a, b, p) ==
    IF DecCmp(a, b) >= 0
    THEN DecGreater(DecMulInt(a, Pow10(p.exp) - p.num),
                    DecMulInt(b, Pow10(p.exp)))
    ELSE DecGreater(DecMulInt(b, Pow10(p.exp)),
                    DecMulInt(a, Pow10(p.exp) + p.num))

\* C5: the threshold test of a tick (the step that leaves "check") is true
\* exactly when |baseline - snapshot| is strictly greater than baseline *
\* fraction; with baseline 100 and fraction 0.1 it is false for 110, 90 and
\* 109 and true for 111.
C5_StrictThreshold ==
    [][(mpc = "check" /\ mpc' # "check") =>
        /\ acted' \in {"skip", "fire"}
        /\ (acted' = "fire") <=> Exceeds(lastRate, snapshot, threshold)
        /\ (lastRate = D(100) /\ threshold = [num |-> 1, exp |-> 1]) =>
              /\ snapshot \in {D(110), D(90), D(109)} => acted' = "skip"
              /\ snapshot = D(111) => acted' = "fire"]_vars

\* C5 witness: the test was applied to baseline 100 and snapshot 110 with
\* fraction 0.1, difference equal to the limit, and was false
C5_Witness ==
    /\ acted = "skip"
    /\ lastRate = D(100)
    /\ snapshot = D(110)
    /\ threshold = [num |-> 1, exp |-> 1]

\* C8: Rate() reads the average only while no Update is between its Lock
\* and its Unlock, and the value it returns is the mean of the buffer as it
\* is then: the buffer before that Update or the buffer after it.
C8_RateSeesWholeUpdate ==
    [][(mpc = "rate" /\ mpc' = "check") =>
        /\ upc \in {"none", "fetch", "lock"}
        /\ IsMeanOf(snapshot', rates)
        /\ upc \in {"fetch", "lock"} => rates = preRates]_vars

\* C8 witness: Rate() returned while an Update that had fetched its sample
\* was waiting to change the buffer
C8_Witness ==
    /\ mpc = "check"
    /\ upc = "lock"
    /\ ucaller = "run"
    /\ snapshot = average
    /\ urate # average

\* C9 (as claimed): once ctx is cancelled, a loop that is at its select does
\* not take its tick case, so no Update and no round starts.
C9_NoTickAfterCancel ==
    [][cancelled =>
        /\ ~(rpc = "select" /\ rpc' = "update")
        /\ ~(mpc = "select" /\ mpc' = "rate")]_vars

\* C9 (amended): once ctx is cancelled, a loop that is at its select with no
\* tick pending on its ticker only returns: Run starts no Update, main reads
\* no rate and calls no host.
C9_ReturnsWhenNoTickPending ==
    [][/\ (cancelled /\ rpc = "select" /\ ~rtick) =>
            (rpc' \in {"select", "done"} /\ upc' = "none")
       /\ (cancelled /\ mpc = "select" /\ ~mtick) =>
            (mpc' \in {"select", "done"} /\ ~hflight' /\ hcalls' = hcalls)]_vars

\* C9 witness: Run has returned on the cancellation with no tick pending
\* and no Update active
C9_Witness ==
    /\ cancelled
    /\ rpc = "done"
    /\ ~rtick
    /\ upc = "none"
    /\ nupdates > 1

\* C10: a tick whose threshold test is false leaves lastRate as it was,
\* calls no host and sends main back to its select.
C10_SkipChangesNothing ==
    [][(mpc = "check" /\ ~Exceeds(lastRate, snapshot, threshold)) =>
        /\ lastRate' = lastRate
        /\ hcalls' = hcalls
        /\ ~hflight'
        /\ mpc' \in {"check", "select"}]_vars

\* C10 witness: a tick was skipped with a snapshot that differs from the
\* baseline
C10_Witness ==
    /\ acted = "skip"
    /\ mpc = "select"
    /\ snapshot # lastRate
    /\ \A h \in 1..nhosts : hcalls[h] <= 1

\* C11: an Update that fails inside Run sends Run back to its select and
\* does not end the process, however many have failed before; and whenever
\* Run is at its select with a tick pending in a running process, the tick
\* case, which calls Update, can be taken.
C11_FailedUpdateKeepsLoop ==
    /\ [][(ucaller = "run" /\ upc = "fetch" /\ upc' = "none") =>
            (uresult' = "err" /\ rpc' = "select" /\ ~crashed')]_vars
    /\ []((rpc = "select" /\ rtick /\ Alive) => ENABLED RunSelectTick)

\* C11 witness: two Updates of Run have failed one after the other, nothing
\* is cancelled, and Run is at its select
C11_Witness ==
    /\ nupdates >= 3
    /\ Len(fetched) = 1
    /\ ucaller = "run"
    /\ uresult = "err"
    /\ upc = "none"
    /\ rpc = "select"
    /\ ~cancelled
    /\ ~crashed

\* C12 (as claimed): a conversion that fails in the round of a fired tick
\* (here a rate of zero) ends that round only: the process is not
\* terminated by it.
C12_ConversionFailureNotFatal ==
    (mpc = "convert" /\ acted = "fire" /\ ConvertPanics(lastRate)) => ~crashed

\* C13 (as claimed): whenever an update call to a host is in flight, it
\* belongs to a tick whose threshold test was true.
C13_CallsOnlyWhenFired ==
    hflight => acted = "fire"

\* C13 (amended): whenever an update call to a host is in flight, it belongs
\* either to the updateHosts main makes at startup, before Run is started, or
\* to a tick whose threshold test was true.
C13_CallsAtStartupOrWhenFired ==
    hflight => (rpc = "idle" \/ acted = "fire")

\* C13 witness: a call to the second host is in flight in the round of a
\* fired tick
C13_Witness ==
    /\ hflight
    /\ hidx = 2
    /\ rpc # "idle"
    /\ acted = "fire"
    /\ lastRate = snapshot

\* C14: a successful Update returns the sample it has just fetched; when the
\* buffer also holds other samples and their mean is not that sample, the
\* average Rate() returns next differs from the value Update returned.
C14_ReturnsSampleNotMean ==
    (upc = "none" /\ uresult = "ok") =>
        LET others == SubSeq(rates, 1, Len(rates) - 1)
        IN  /\ uret = fetched[Len(fetched)]
            /\ (/\ others # <<>>
                /\ SumRates(others) # DecMulInt(uret, Len(others)))
                   => average # uret

\* C14 witness: an Update of Run returned a sample that is not the mean of
\* the two samples in the buffer
C14_Witness ==
    /\ upc = "none"
    /\ uresult = "ok"
    /\ ucaller = "run"
    /\ Len(rates) = 2
    /\ uret = rates[2]
    /\ uret # average

\* C15: the threshold test of every tick is true exactly when the snapshot
\* deviates by strictly more than the fraction from the anchor: the snapshot
\* of the most recent tick that fired, or the rate of the initial Update
\* while none has fired.
C15_AnchoredToLastFired ==
    [][(mpc = "check" /\ mpc' # "check") =>
        ((acted' = "fire") <=> Exceeds(anchor, snapshot, threshold))]_vars

\* C15 witness: with a buffer of two, after the samples 100, 111, 111 the
\* second consumed tick fired on 111; the first was skipped on a snapshot of
\* at most 105.5
C15_Witness ==
    /\ acted = "fire"
    /\ frequency = 20
    /\ fetched = <<D(100), D(111), D(111)>>
    /\ nticks = 2
    /\ ~mtick
    /\ anchor = D(111)
    /\ lastRate = D(111)

\* C16: while the quote fetch of an Update is in flight the mutex is free
\* and the average is still the one the last completed Update left, so a
\* Rate() call main is making does not wait: it can return, with that mean.
C16_RateNotBlockedByFetch ==
    upc = "fetch" =>
        /\ mu = "free"
        /\ average = preAverage
        /\ (mpc = "rate" /\ Alive) => ENABLED MainRate

\* C16 witness: main is inside Rate() while Run's Update is fetching, and
\* Rate() can return
C16_Witness ==
    /\ mpc = "rate"
    /\ upc = "fetch"
    /\ ucaller = "run"
    /\ rates # <<>>
    /\ ENABLED MainRate

\* C17: once Run is started, Update is called only by Run from its select,
\* only Update's critical section changes the buffer and the average, and
\* no step of main changes them or starts an Update.
C17_OnlyRunUpdates ==
    /\ [][(rpc # "idle" /\ nupdates' # nupdates) =>
            (rpc = "select" /\ rpc' = "update" /\ ucaller' = "run")]_vars
    /\ [][(rates' # rates \/ average' # average) =>
            (upc \in {"append", "evict", "average"} /\ mpc' = mpc)]_vars
    /\ [][(rpc # "idle" /\ mpc' # mpc) =>
            (rates' = rates /\ average' = average /\ upc' = upc)]_vars

\* C17 witness: Run has updated the average, and main has read it on a tick
\* and finished the round it fired
C17_Witness ==
    /\ nupdates >= 2
    /\ ucaller = "run"
    /\ uresult = "ok"
    /\ acted = "fire"
    /\ mpc = "select"
    /\ hresult = "ok"
    /\ snapshot = average

\* C18: inside updateHosts the hosts before the loop index have each
\* received one call, which has returned, the host at the index has one
\* call exactly while a call is in flight, and no later host has been
\* called; outside the loop no call is in flight.
C18_OneCallAtATimeInOrder ==
    /\ mpc = "hosts" =>
          \A h \in 1..nhosts :
              hcalls[h] = IF h < hidx \/ (h = hidx /\ hflight) THEN 1 ELSE 0
    /\ mpc # "hosts" => ~hflight

\* C18 witness: the call to the second host is in flight after the call to
\* the first has returned
C18_Witness ==
    /\ mpc = "hosts"
    /\ nhosts = 2
    /\ hidx = 2
    /\ hflight
    /\ hcalls = <<1, 1>>

\* C19 (as claimed): when Update reaches the recomputation of the mean the
\* buffer holds at least one sample, and Update does not panic there.
C19_DivisorNeverZero ==
    upc = "average" => (Len(rates) >= 1 /\ ~crashed)

\* C20 (as claimed): a tick that reads the average when no Update has
\* succeeded since main's previous read (or since the initial Update
\* returned) has a false threshold test, so two fired ticks always have a
\* successful Update between them.
C20_NoRefireOnUnchangedData ==
    [][(mpc = "rate" /\ mpc' = "check" /\ ~sinceRead) =>
        ~Exceeds(lastRate, snapshot', threshold)]_vars

\* C20 (amended): such a tick has a false threshold test when the baseline
\* has at most 16 fractional digits, and the baseline a fired tick leaves
\* has at most 16: a tick that follows a fired tick with no successful
\* Update in between is skipped, while the first tick after startup may
\* fire on the unchanged buffer when the initial sample has more digits.
C20_NoRefireOnRoundedBaseline ==
    [][/\ (mpc = "rate" /\ mpc' = "check" /\ ~sinceRead
            /\ lastRate[Limbs] = 0) =>
                ~Exceeds(lastRate, snapshot', threshold)
       /\ (mpc = "check" /\ acted' = "fire") => lastRate'[Limbs] = 0]_vars

\* C20 witness: a tick fired and moved the baseline, and the next tick, read
\* with no Update in between, was skipped on a snapshot equal to the
\* baseline
C20_Witness ==
    /\ acted = "skip"
    /\ mpc = "select"
    /\ nticks = 2
    /\ ~mtick
    /\ ~sinceRead
    /\ anchor # fetched[1]
    /\ lastRate = anchor
    /\ snapshot = lastRate

====
